---- MODULE Spec2Model ----
\* Header organizer (header_organizer.cpp) and header validator
\* (validate_header.cpp) of libbitcoin-blockchain, as a state machine.
\* Callers submit headers through organize(); the organizer serialises the
\* submissions with the high priority write lock, builds the branch from the
\* header pool, runs the validator's accept sequence and either reorganizes
\* the candidate index or pools the header.
EXTENDS Integers, Sequences, FiniteSets, TLC

\* --------------------------------------------------------------------------
\* Bounds of the model.

\* Number of threads that call organize() concurrently.
NumCallers == 2

\* Configured capacity of the header pool (oldest entry evicted beyond it);
\* H2 and H2' are the headers that get pooled, so 1 makes the eviction happen.
MaxPool == 1

Callers == 1..NumCallers

\* --------------------------------------------------------------------------
\* Result codes (bc::error).

success == "success"
duplicate_block == "duplicate_block"
orphan_block == "orphan_block"
invalid_timestamp == "invalid_timestamp"
invalid_bits == "invalid_bits"
insufficient_work == "insufficient_work"
operation_failed == "operation_failed"
service_stopped == "service_stopped"
store_corrupted == "store_corrupted"

\* --------------------------------------------------------------------------
\* The headers that may be submitted. A header is immutable; it is named by
\* its hash, here a small number. Genesis is indexed at height 0.
\*   1 = H1  (child of genesis)      2 = H2  (child of H1)
\*   3 = H2' (child of H1)           4 = H3' (child of H2', its full block
\*   5 = Hy  (child of Hb, which is        was validated before)
\*            never pooled or indexed)
\*   6 = Hx  (timestamp too far in the future)
\*   7 = Hb  (child of H1, bits do not match the required work)

Genesis == 0
Headers == {1, 2, 3, 4, 5, 6, 7}
NoHeader == 0

\* header.previous_block_hash(). The parent of Hy is Hb, which fails the
\* contextual checks and so is unknown to the pool and the index.
Previous == <<0, 1, 1, 3, 7, 0, 1>>

\* chain::header::proof(bits): the work of one header.
Proof == <<1, 1, 1, 1, 1, 1, 1>>

\* header->check(timestamp_limit_seconds, proof_of_work_limit, scrypt).
HeaderCheck == [h \in Headers |-> IF h = 6 THEN invalid_timestamp ELSE success]

\* header->accept(): the contextual checks against the populated chain state.
\* H3' was validated with its block, its contextual checks are not rerun.
HeaderAccept == [h \in Headers |-> IF h \in {4, 7} THEN invalid_bits ELSE success]

\* header->metadata.validated.
Validated == [h \in Headers |-> h = 4]

\* --------------------------------------------------------------------------
VARIABLES
    organizer_stopped_,   \* header_organizer::stopped_
    validator_stopped_,   \* validate_header::stopped_
    life,                 \* position of the thread that calls start()/stop()
    mutex_,               \* holder of the high priority write lock, 0 = free
    candidate,            \* candidate header index, candidate[k] at height k-1
    pool_,                \* header pool: entries [header, height], oldest first
    pc,                   \* per caller: position in the organize sequence
    header,               \* per caller: the header submitted
    branch,               \* per caller: the branch built by get_branch
    ec,                   \* per caller: the code carried by the continuation
    todo,                 \* per caller: codes handle_complete is called with
    events,               \* per caller: what the invocation has done so far
    locked,               \* per caller: lock_high_priority calls returned
    unlocked,             \* per caller: unlock_high_priority calls made
    invoked,              \* per caller: times the caller's handler has run
    pre,                  \* per caller: index and pool when the lock was granted
    cmp,                  \* per caller: work and required work compared
    organized             \* headers that a call has integrated or pooled so far

vars == <<organizer_stopped_, validator_stopped_, life, mutex_, candidate,
          pool_, pc, header, branch, ec, todo, events, locked, unlocked,
          invoked, pre, cmp, organized>>

Free == 0

\* --------------------------------------------------------------------------
\* Candidate index (fast_chain) queries.

InIndex(index, h) == \E k \in 1..Len(index) : index[k] = h

\* Height of an indexed header.
IndexHeight(index, h) == (CHOOSE k \in 1..Len(index) : index[k] = h) - 1

TopHeight(index) == Len(index) - 1

ProofOf(h) == IF h = Genesis THEN 0 ELSE Proof[h]

RECURSIVE SumProof(_)
SumProof(s) == IF s = <<>> THEN 0 ELSE ProofOf(Head(s)) + SumProof(Tail(s))

\* --------------------------------------------------------------------------
\* Header pool.

PoolHeaders(pool) == {pool[k].header : k \in 1..Len(pool)}

InPool(pool, h) == h \in PoolHeaders(pool)

\* header_pool::add(header, height): no-op when present, oldest entry evicted
\* beyond the configured capacity.
PoolAdd(pool, h, height) ==
    IF InPool(pool, h) THEN pool
    ELSE LET grown == Append(pool, [header |-> h, height |-> height])
         IN  IF Len(grown) > MaxPool THEN Tail(grown) ELSE grown

\* --------------------------------------------------------------------------
\* Header branch.

EmptyBranch == [headers |-> <<>>, anchored |-> FALSE, height |-> 0]

\* The pooled ancestors of h that are not indexed, oldest first, then h.
RECURSIVE Trace(_, _, _)
Trace(pool, index, h) ==
    LET p == Previous[h]
    IN  IF p \in Headers /\ InPool(pool, p) /\ ~InIndex(index, p)
        THEN Append(Trace(pool, index, p), h)
        ELSE <<h>>

\* header_pool::get_branch(header): empty when the header is pooled or indexed,
\* otherwise the chain back through the pool to the first indexed ancestor,
\* the fork point.
get_branch(pool, index, h) ==
    IF InPool(pool, h) \/ InIndex(index, h) THEN EmptyBranch
    ELSE LET hs == Trace(pool, index, h)
             root == Previous[Head(hs)]
         IN  IF InIndex(index, root)
             THEN [headers |-> hs, anchored |-> TRUE,
                   height |-> IndexHeight(index, root)]
             ELSE [headers |-> hs, anchored |-> FALSE, height |-> 0]

branch_empty(b) == b.headers = <<>>

\* header_branch::top(): null (NoHeader) for an empty branch.
branch_top(b) == IF branch_empty(b) THEN NoHeader ELSE b.headers[Len(b.headers)]

branch_work(b) == SumProof(b.headers)

\* header_branch::height(): the height of the fork point.
branch_height(b) == b.height

branch_top_height(b) == b.height + Len(b.headers)

\* --------------------------------------------------------------------------
\* Candidate index (fast_chain) operations used by the organizer.

\* fast_chain::get_work(required, overcome, above_height, candidate): the work
\* of the indexed headers above above_height, summed from the top down until
\* it exceeds the work to overcome.
RECURSIVE WorkFrom(_, _, _, _, _)
WorkFrom(index, overcome, above_height, height, sum) ==
    IF height > above_height /\ sum <= overcome
    THEN WorkFrom(index, overcome, above_height, height - 1,
                  sum + ProofOf(index[height + 1]))
    ELSE sum

get_work(index, overcome, above_height) ==
    WorkFrom(index, overcome, above_height, TopHeight(index), 0)

\* What a call of fast_chain::reorganize may do: succeed, fail before the
\* index was written, or fail after the headers above the fork point were
\* popped (the store "is now corrupted").
ReorganizeOutcomes == {"ok", "failed", "failed_popped"}

\* fast_chain::reorganize(fork_point, branch_headers).
reorganize(index, fork_height, headers, outcome) ==
    LET below == SubSeq(index, 1, fork_height + 1)
    IN  CASE outcome = "ok" -> [code |-> success, index |-> below \o headers]
          [] outcome = "failed" -> [code |-> operation_failed, index |-> index]
          [] OTHER -> [code |-> store_corrupted, index |-> below]

\* populate_header::populate(branch, handler): the code handed to the
\* continuation. A branch without a fork point cannot be given chain state;
\* reading the samples from the index may fail.
populate(b, read_ok) ==
    IF ~b.anchored THEN orphan_block
    ELSE IF ~read_ok THEN operation_failed
    ELSE success

\* --------------------------------------------------------------------------
\* validate_header.

\* validate_header::check(header).
check(h) == HeaderCheck[h]

\* handle_populated without the stopped() test.
handle_populated_unstopped(stopped, code, b) ==
    IF code # success THEN <<code>>
    ELSE IF branch_top(b) # NoHeader
         THEN IF Validated[branch_top(b)]
              THEN <<success>>
              ELSE <<HeaderAccept[branch_top(b)]>>
         ELSE <<>>

\* handle_populated running the contextual checks on a validated header too.
handle_populated_no_skip(stopped, code, b) ==
    IF stopped THEN <<service_stopped>>
    ELSE IF code # success THEN <<code>>
    ELSE IF branch_top(b) # NoHeader
         THEN <<HeaderAccept[branch_top(b)]>>
         ELSE <<>>

\* validate_header::handle_populated(ec, branch, handler): the codes the
\* handler is invoked with, in order; none when no path invokes it. A null
\* branch pointer and a null top both end without a handler: both are the
\* empty branch here. organize hands accept the branch it dereferenced and
\* found non-empty, so neither comes from organize.
handle_populated(stopped, code, b) ==
    IF stopped THEN <<service_stopped>>
    ELSE IF code # success THEN <<code>>
    ELSE IF branch_top(b) # NoHeader
         THEN IF Validated[branch_top(b)]
              THEN <<success>>
              ELSE <<HeaderAccept[branch_top(b)]>>
         ELSE <<>>

\* --------------------------------------------------------------------------
\* header_organizer.

NoCmp == [done |-> FALSE, work |-> 0, required |-> 0, reorganize |-> "none"]

\* What handle_accept hands on: the codes its handler (handle_complete) is
\* invoked with, the index and the pool it leaves, what it called and what
\* it compared.
Accepted(calls, index, pool, evs, compared) ==
    [calls |-> calls, index |-> index, pool |-> pool, events |-> evs,
     cmp |-> compared]

\* handle_accept pooling the top of the branch before it looks at the error.
handle_accept_error_pooled(code, b, index, pool) ==
    Accepted(<<code>>, index,
             PoolAdd(pool, branch_top(b), branch_top_height(b)), <<"add">>,
             NoCmp)

\* handle_accept, "if (ec)": the error is handed on, nothing is touched.
handle_accept_error(code, b, index, pool) ==
    Accepted(<<code>>, index, pool, <<>>, NoCmp)

\* handle_accept asking for the work above the top height of the branch.
handle_accept_required_top(index, b) ==
    get_work(index, branch_work(b), branch_top_height(b))

\* handle_accept: the required work, asked of the index above the height of
\* the branch (its fork point) for the work of the branch.
handle_accept_required(index, b) ==
    get_work(index, branch_work(b), branch_height(b))

\* The consensus test letting a branch of equal work through.
handle_accept_insufficient_strict(work, required) == work < required

\* handle_accept, "Consensus": whether the branch has insufficient work.
handle_accept_insufficient(work, required) == work <= required

\* handle_accept reorganizing with the top header only.
handle_accept_reorganize_top(index, b, outcome) ==
    reorganize(index, branch_height(b), <<branch_top(b)>>, outcome)

\* handle_accept: the call of fast_chain_.reorganize.
handle_accept_reorganize(index, b, outcome) ==
    reorganize(index, branch_height(b), b.headers, outcome)

\* handle_accept reporting every failure of reorganize as operation_failed.
handle_accept_reorganized_masked(code) ==
    IF code # success THEN <<operation_failed>> ELSE <<code>>

\* handle_accept: the code handed on after reorganize, error or not.
handle_accept_reorganized(code) == <<code>>

\* handle_accept reporting success when get_work failed.
handle_accept_work_failed_masked(index, pool) ==
    Accepted(<<success>>, index, pool, <<"get_work">>, NoCmp)

\* handle_accept, "if (!fast_chain_.get_work(...))": operation_failed is
\* handed on, nothing is touched.
handle_accept_work_failed(index, pool) ==
    Accepted(<<operation_failed>>, index, pool, <<"get_work">>, NoCmp)

\* handle_accept going on to the work comparison whatever code accept
\* completed with.
handle_accept_started_any_code(code, b, index, pool, work_ok, outcome) ==
    LET work == branch_work(b)
        required == handle_accept_required(index, b)
        reorg == handle_accept_reorganize(index, b, outcome)
        compared(r) == [done |-> TRUE, work |-> work, required |-> required,
                        reorganize |-> r]
    IN  IF ~work_ok
        THEN handle_accept_work_failed(index, pool)
        ELSE IF handle_accept_insufficient(work, required)
             THEN Accepted(<<insufficient_work>>, index,
                           PoolAdd(pool, branch_top(b), branch_top_height(b)),
                           <<"get_work", "add">>, compared("none"))
             ELSE Accepted(handle_accept_reorganized(reorg.code), reorg.index,
                           pool, <<"get_work", "reorganize">>,
                           compared(reorg.code))

\* handle_accept past the stopped() test.
handle_accept_started(code, b, index, pool, work_ok, outcome) ==
    LET work == branch_work(b)
        required == handle_accept_required(index, b)
        reorg == handle_accept_reorganize(index, b, outcome)
        compared(r) == [done |-> TRUE, work |-> work, required |-> required,
                        reorganize |-> r]
    IN  IF code # success THEN handle_accept_error(code, b, index, pool)
        ELSE IF ~work_ok
             THEN handle_accept_work_failed(index, pool)
        ELSE IF handle_accept_insufficient(work, required)
             THEN Accepted(<<insufficient_work>>, index,
                           PoolAdd(pool, branch_top(b), branch_top_height(b)),
                           <<"get_work", "add">>, compared("none"))
             ELSE Accepted(handle_accept_reorganized(reorg.code), reorg.index,
                           pool, <<"get_work", "reorganize">>,
                           compared(reorg.code))

\* handle_accept without the return after handler(error::service_stopped).
handle_accept_no_return(stopped, code, b, index, pool, work_ok, outcome) ==
    LET rest == handle_accept_started(code, b, index, pool, work_ok, outcome)
    IN  IF stopped THEN [rest EXCEPT !.calls = <<service_stopped>> \o @]
        ELSE rest

\* handle_accept pooling the top of the branch when the organizer is stopped.
handle_accept_stopped_pooled(stopped, code, b, index, pool, work_ok, outcome) ==
    IF stopped
    THEN Accepted(<<service_stopped>>, index,
                  PoolAdd(pool, branch_top(b), branch_top_height(b)), <<>>,
                  NoCmp)
    ELSE handle_accept_started(code, b, index, pool, work_ok, outcome)

\* handle_accept looking at the error code before the stopped() test.
handle_accept_error_first(stopped, code, b, index, pool, work_ok, outcome) ==
    IF code # success THEN handle_accept_error(code, b, index, pool)
    ELSE IF stopped
    THEN Accepted(<<service_stopped>>, index, pool, <<>>, NoCmp)
    ELSE handle_accept_started(code, b, index, pool, work_ok, outcome)

\* header_organizer::handle_accept(ec, branch, handler).
handle_accept(stopped, code, b, index, pool, work_ok, outcome) ==
    IF stopped THEN Accepted(<<service_stopped>>, index, pool, <<>>, NoCmp)
    ELSE handle_accept_started(code, b, index, pool, work_ok, outcome)

NoPre == [index |-> <<>>, pool |-> <<>>]

Init ==
    /\ organizer_stopped_ = TRUE
    /\ validator_stopped_ = TRUE
    /\ life = "idle"
    /\ mutex_ = Free
    /\ candidate = <<Genesis>>
    /\ pool_ = <<>>
    /\ pc = [c \in Callers |-> "idle"]
    /\ header = [c \in Callers |-> NoHeader]
    /\ branch = [c \in Callers |-> EmptyBranch]
    /\ ec = [c \in Callers |-> success]
    /\ todo = [c \in Callers |-> <<>>]
    /\ events = [c \in Callers |-> <<>>]
    /\ locked = [c \in Callers |-> 0]
    /\ unlocked = [c \in Callers |-> 0]
    /\ invoked = [c \in Callers |-> 0]
    /\ pre = [c \in Callers |-> NoPre]
    /\ cmp = [c \in Callers |-> NoCmp]
    /\ organized = {}

callers ==
    <<pc, header, branch, ec, todo, events, locked, unlocked, invoked, pre,
      cmp>>

\* header_organizer::start(), first statement: stopped_ = false.
StartOrganizer ==
    /\ life = "idle"
    /\ organizer_stopped_' = FALSE
    /\ life' = "starting"
    /\ UNCHANGED <<organized, validator_stopped_, mutex_, candidate, pool_, callers>>

\* header_organizer::start(), second statement: validator_.start().
StartValidator ==
    /\ life = "starting"
    /\ validator_stopped_' = FALSE
    /\ life' = "idle"
    /\ UNCHANGED <<organized, organizer_stopped_, mutex_, candidate, pool_, callers>>

\* header_organizer::stop(), first statement: validator_.stop().
StopValidator ==
    /\ life = "idle"
    /\ validator_stopped_' = TRUE
    /\ life' = "stopping"
    /\ UNCHANGED <<organized, organizer_stopped_, mutex_, candidate, pool_, callers>>

\* header_organizer::stop(), second statement: stopped_ = true.
StopOrganizer ==
    /\ life = "stopping"
    /\ organizer_stopped_' = TRUE
    /\ life' = "idle"
    /\ UNCHANGED <<organized, validator_stopped_, mutex_, candidate, pool_, callers>>

\* organize taking the lock before it looks at the result of the check.
Organize_lock_first(c, h) ==
    /\ pc[c] \in {"idle", "done"}
    /\ header' = [header EXCEPT ![c] = h]
    /\ events' = [events EXCEPT ![c] = <<"check">>]
    /\ locked' = [locked EXCEPT ![c] = 0]
    /\ unlocked' = [unlocked EXCEPT ![c] = 0]
    /\ invoked' = [invoked EXCEPT ![c] = 0]
    /\ ec' = [ec EXCEPT ![c] = check(h)]
    /\ todo' = [todo EXCEPT ![c] = <<>>]
    /\ pc' = [pc EXCEPT ![c] = "lock_high_priority"]
    /\ UNCHANGED <<organized, organizer_stopped_, validator_stopped_, life, mutex_,
                   candidate, pool_, branch, pre, cmp>>

\* organize going on to get_branch without lock_high_priority.
Organize_unlocked(c, h) ==
    /\ pc[c] \in {"idle", "done"}
    /\ header' = [header EXCEPT ![c] = h]
    /\ events' = [events EXCEPT ![c] = <<"check">>]
    /\ locked' = [locked EXCEPT ![c] = 0]
    /\ unlocked' = [unlocked EXCEPT ![c] = 0]
    /\ invoked' = [invoked EXCEPT ![c] = 0]
    /\ ec' = [ec EXCEPT ![c] = check(h)]
    /\ todo' = [todo EXCEPT ![c] =
                  IF check(h) # success THEN <<check(h)>> ELSE <<>>]
    /\ pc' = [pc EXCEPT ![c] =
                IF check(h) # success THEN "handler" ELSE "get_branch"]
    /\ UNCHANGED <<organized, organizer_stopped_, validator_stopped_, life, mutex_,
                   candidate, pool_, branch, pre, cmp>>

\* header_organizer::organize, up to the lock: the context free check; on an
\* error the caller's handler is invoked with it at once. A caller submits its
\* next header once the handler of its previous submission has run.
Organize(c, h) ==
    /\ pc[c] \in {"idle", "done"}
    /\ header' = [header EXCEPT ![c] = h]
    /\ events' = [events EXCEPT ![c] = <<"check">>]
    /\ locked' = [locked EXCEPT ![c] = 0]
    /\ unlocked' = [unlocked EXCEPT ![c] = 0]
    /\ invoked' = [invoked EXCEPT ![c] = 0]
    /\ ec' = [ec EXCEPT ![c] = check(h)]
    /\ todo' = [todo EXCEPT ![c] =
                  IF check(h) # success THEN <<check(h)>> ELSE <<>>]
    /\ pc' = [pc EXCEPT ![c] =
                IF check(h) # success THEN "handler" ELSE "lock_high_priority"]
    /\ UNCHANGED <<organized, organizer_stopped_, validator_stopped_, life, mutex_,
                   candidate, pool_, branch, pre, cmp>>

\* lock_high_priority returning although the lock is held.
LockHighPriority_no_wait(c) ==
    /\ pc[c] = "lock_high_priority"
    /\ mutex_' = c
    /\ pre' = [pre EXCEPT ![c] = [index |-> candidate, pool |-> pool_]]
    /\ locked' = [locked EXCEPT ![c] = @ + 1]
    /\ events' = [events EXCEPT ![c] = Append(@, "lock")]
    /\ pc' = [pc EXCEPT ![c] = "get_branch"]
    /\ UNCHANGED <<organized, organizer_stopped_, validator_stopped_, life, candidate,
                   pool_, header, branch, ec, todo, unlocked, invoked, cmp>>

\* mutex_.lock_high_priority(): blocks until the lock is free.
LockHighPriority(c) ==
    /\ pc[c] = "lock_high_priority"
    /\ mutex_ = Free
    /\ mutex_' = c
    /\ pre' = [pre EXCEPT ![c] = [index |-> candidate, pool |-> pool_]]
    /\ locked' = [locked EXCEPT ![c] = @ + 1]
    /\ events' = [events EXCEPT ![c] = Append(@, "lock")]
    /\ pc' = [pc EXCEPT ![c] = "get_branch"]
    /\ UNCHANGED <<organized, organizer_stopped_, validator_stopped_, life, candidate,
                   pool_, header, branch, ec, todo, unlocked, invoked, cmp>>

\* Where a continuation goes on with the codes its handler is invoked with:
\* nowhere when there are none.
Continue(calls, next) == IF calls = <<>> THEN "dropped" ELSE next

\* organize handing the branch to accept without the empty() test.
GetBranch_no_empty_test(c) ==
    /\ pc[c] = "get_branch"
    /\ branch' = [branch EXCEPT ![c] =
                     get_branch(pool_, candidate, header[c])]
    /\ events' = [events EXCEPT ![c] = @ \o <<"get_branch", "accept">>]
    /\ pc' = [pc EXCEPT ![c] = "populate"]
    /\ UNCHANGED <<organized, organizer_stopped_, validator_stopped_, life, mutex_,
                   candidate, pool_, header, ec, todo, locked, unlocked, invoked, pre,
                   cmp>>

\* organize releasing the lock once the branch is built, before accept.
GetBranch_unlock_early(c) ==
    /\ pc[c] = "get_branch"
    /\ LET b == get_branch(pool_, candidate, header[c])
       IN  /\ branch' = [branch EXCEPT ![c] = b]
           /\ IF branch_empty(b)
              THEN /\ todo' = [todo EXCEPT ![c] = <<duplicate_block>>]
                   /\ events' = [events EXCEPT ![c] = Append(@, "get_branch")]
                   /\ pc' = [pc EXCEPT ![c] = "handle_complete"]
                   /\ mutex_' = mutex_
              ELSE /\ todo' = todo
                   /\ events' = [events EXCEPT ![c] =
                                    @ \o <<"get_branch", "accept">>]
                   /\ pc' = [pc EXCEPT ![c] = "populate"]
                   /\ mutex_' = Free
    /\ UNCHANGED <<organized, organizer_stopped_, validator_stopped_, life,
                   candidate, pool_, header, ec, locked, unlocked, invoked, pre, cmp>>

\* organize completing with success on an empty branch.
GetBranch_empty_success(c) ==
    /\ pc[c] = "get_branch"
    /\ LET b == get_branch(pool_, candidate, header[c])
       IN  /\ branch' = [branch EXCEPT ![c] = b]
           /\ IF branch_empty(b)
              THEN /\ todo' = [todo EXCEPT ![c] = <<success>>]
                   /\ events' = [events EXCEPT ![c] = Append(@, "get_branch")]
                   /\ pc' = [pc EXCEPT ![c] = "handle_complete"]
              ELSE /\ todo' = todo
                   /\ events' = [events EXCEPT ![c] =
                                    @ \o <<"get_branch", "accept">>]
                   /\ pc' = [pc EXCEPT ![c] = "populate"]
    /\ UNCHANGED <<organized, organizer_stopped_, validator_stopped_, life, mutex_,
                   candidate, pool_, header, ec, locked, unlocked, invoked, pre, cmp>>

\* header_organizer::organize, inside the critical section: build the
\* branch; an empty branch completes with duplicate_block, any other is
\* handed to validator_.accept, which posts the population.
GetBranch(c) ==
    /\ pc[c] = "get_branch"
    /\ LET b == get_branch(pool_, candidate, header[c])
       IN  /\ branch' = [branch EXCEPT ![c] = b]
           /\ IF branch_empty(b)
              THEN /\ todo' = [todo EXCEPT ![c] = <<duplicate_block>>]
                   /\ events' = [events EXCEPT ![c] = Append(@, "get_branch")]
                   /\ pc' = [pc EXCEPT ![c] = "handle_complete"]
              ELSE /\ todo' = todo
                   /\ events' = [events EXCEPT ![c] =
                                    @ \o <<"get_branch", "accept">>]
                   /\ pc' = [pc EXCEPT ![c] = "populate"]
    /\ UNCHANGED <<organized, organizer_stopped_, validator_stopped_, life, mutex_,
                   candidate, pool_, header, ec, locked, unlocked, invoked, pre, cmp>>

\* header_populator_.populate(branch, handle_populated) completes.
Populate(c) ==
    /\ pc[c] = "populate"
    /\ \E read_ok \in BOOLEAN :
          ec' = [ec EXCEPT ![c] = populate(branch[c], read_ok)]
    /\ pc' = [pc EXCEPT ![c] = "handle_populated"]
    /\ UNCHANGED <<organized, organizer_stopped_, validator_stopped_, life, mutex_,
                   candidate, pool_, header, branch, todo, events, locked, unlocked,
                   invoked, pre, cmp>>

\* validate_header::handle_populated runs; it reads the validator's flag.
HandlePopulated(c) ==
    /\ pc[c] = "handle_populated"
    /\ LET calls == handle_populated(validator_stopped_, ec[c], branch[c])
       IN  /\ todo' = [todo EXCEPT ![c] = calls]
           /\ ec' = [ec EXCEPT ![c] = IF calls = <<>> THEN @ ELSE Head(calls)]
           /\ pc' = [pc EXCEPT ![c] = Continue(calls, "handle_accept")]
    /\ events' = [events EXCEPT ![c] =
                    Append(@, IF validator_stopped_ THEN "validator_stopped"
                              ELSE "populated")]
    /\ UNCHANGED <<organized, organizer_stopped_, validator_stopped_, life, mutex_,
                   candidate, pool_, header, branch, locked, unlocked, invoked, pre,
                   cmp>>

\* header_organizer::handle_accept runs; it reads the organizer's flag.
HandleAccept(c) ==
    /\ pc[c] = "handle_accept"
    /\ \E work_ok \in BOOLEAN, outcome \in ReorganizeOutcomes :
          LET r == handle_accept(organizer_stopped_, ec[c], branch[c],
                                 candidate, pool_, work_ok, outcome)
          IN  /\ todo' = [todo EXCEPT ![c] = r.calls]
              /\ candidate' = r.index
              /\ pool_' = r.pool
              /\ cmp' = [cmp EXCEPT ![c] = r.cmp]
              /\ events' = [events EXCEPT ![c] =
                    Append(@, IF organizer_stopped_ THEN "organizer_stopped"
                              ELSE "accepted") \o r.events]
              /\ pc' = [pc EXCEPT ![c] = Continue(r.calls, "handle_complete")]
              /\ organized' =
                    IF Head(r.calls) \in {success, insufficient_work}
                    THEN organized \cup {branch_top(branch[c])}
                    ELSE organized
    /\ UNCHANGED <<organizer_stopped_, validator_stopped_, life, mutex_,
                   header, branch, ec, locked, unlocked, invoked, pre>>

\* handle_complete invoking the handler without unlocking first.
HandleComplete_no_unlock(c) ==
    /\ pc[c] = "handle_complete"
    /\ ec' = [ec EXCEPT ![c] = Head(todo[c])]
    /\ header' = [header EXCEPT ![c] = NoHeader]
    /\ branch' = [branch EXCEPT ![c] = EmptyBranch]
    /\ events' = [events EXCEPT ![c] = <<>>]
    /\ pre' = [pre EXCEPT ![c] = NoPre]
    /\ cmp' = [cmp EXCEPT ![c] = NoCmp]
    /\ pc' = [pc EXCEPT ![c] = "handler"]
    /\ UNCHANGED <<organized, organizer_stopped_, validator_stopped_, life, mutex_,
                   candidate, pool_, todo, locked, unlocked, invoked>>

\* header_organizer::handle_complete(ec, handler), first statement:
\* mutex_.unlock_high_priority(). What the invocation did inside the critical
\* section is over with it: of the call there remains the code for the handler.
HandleComplete(c) ==
    /\ pc[c] = "handle_complete"
    /\ mutex_' = Free
    /\ unlocked' = [unlocked EXCEPT ![c] = @ + 1]
    /\ ec' = [ec EXCEPT ![c] = Head(todo[c])]
    /\ header' = [header EXCEPT ![c] = NoHeader]
    /\ branch' = [branch EXCEPT ![c] = EmptyBranch]
    /\ events' = [events EXCEPT ![c] = <<>>]
    /\ pre' = [pre EXCEPT ![c] = NoPre]
    /\ cmp' = [cmp EXCEPT ![c] = NoCmp]
    /\ pc' = [pc EXCEPT ![c] = "handler"]
    /\ UNCHANGED <<organized, organizer_stopped_, validator_stopped_, life, candidate,
                   pool_, todo, locked, invoked>>

\* The caller's handler is invoked with the code, handler(ec): at the end of
\* handle_complete, or from organize when the check failed.
Handler(c) ==
    /\ pc[c] = "handler"
    /\ invoked' = [invoked EXCEPT ![c] = @ + 1]
    /\ todo' = [todo EXCEPT ![c] = Tail(@)]
    /\ events' = [events EXCEPT ![c] = <<>>]
    /\ header' = [header EXCEPT ![c] = NoHeader]
    /\ ec' = [ec EXCEPT ![c] = success]
    /\ pc' = [pc EXCEPT ![c] =
                IF Len(todo[c]) > 1 THEN "handle_complete" ELSE "done"]
    /\ UNCHANGED <<organized, organizer_stopped_, validator_stopped_, life, mutex_,
                   candidate, pool_, branch, locked, unlocked, pre, cmp>>

Next ==
    \/ StartOrganizer
    \/ StartValidator
    \/ StopValidator
    \/ StopOrganizer
    \/ \E c \in Callers, h \in Headers : Organize(c, h)
    \/ \E c \in Callers : LockHighPriority(c)
    \/ \E c \in Callers : GetBranch(c)
    \/ \E c \in Callers : Populate(c)
    \/ \E c \in Callers : HandlePopulated(c)
    \/ \E c \in Callers : HandleAccept(c)
    \/ \E c \in Callers : HandleComplete(c)
    \/ \E c \in Callers : Handler(c)

Spec == Init /\ [][Next]_vars

\* --------------------------------------------------------------------------
\* The populated continuation on its own. validate_header::accept is public:
\* handle_populated is bound to whatever branch accept was given and receives
\* whatever code the population completes with. Caller 1 holds the lock and
\* its population is about to complete; the other callers wait for the lock.

\* The branches accept is given, all forking from H1: none (a null pointer or
\* a null top, which handle_populated treats alike), single headers, and
\* chains of two, [H2', H3'] with a validated top and [Hb, Hy] whose first
\* header fails the contextual checks.
AcceptBranches ==
    {EmptyBranch} \cup
    {[headers |-> hs, anchored |-> TRUE, height |-> 1] :
        hs \in {<<2>>, <<3>>, <<7>>, <<3, 4>>, <<7, 5>>}}

\* The codes the population completes with.
PopulateCodes == {success, operation_failed, orphan_block}

\* The flags as start() and stop() leave them: stopped, running, and stop()
\* between its two statements.
Lifecycles ==
    {<<TRUE, TRUE, "idle">>, <<FALSE, FALSE, "idle">>,
     <<FALSE, TRUE, "stopping">>}

InitAccept ==
    /\ \E l \in Lifecycles :
          /\ organizer_stopped_ = l[1]
          /\ validator_stopped_ = l[2]
          /\ life = l[3]
    /\ mutex_ = 1
    /\ candidate = <<Genesis, 1>>
    /\ pool_ = <<>>
    /\ pc = [c \in Callers |->
                IF c = 1 THEN "handle_populated" ELSE "lock_high_priority"]
    /\ branch \in [Callers -> AcceptBranches]
    /\ \A c \in Callers \ {1} : branch[c] = EmptyBranch
    /\ header \in [Callers -> Headers]
    /\ header[1] = (IF branch_empty(branch[1]) THEN 1 ELSE branch_top(branch[1]))
    /\ \A c \in Callers \ {1} : check(header[c]) = success
    /\ ec \in [Callers -> PopulateCodes]
    /\ \A c \in Callers \ {1} : ec[c] = success
    /\ todo = [c \in Callers |-> <<>>]
    /\ events = [c \in Callers |->
                    IF c = 1 THEN <<"check", "lock", "get_branch", "accept">>
                    ELSE <<"check">>]
    /\ locked = [c \in Callers |-> IF c = 1 THEN 1 ELSE 0]
    /\ unlocked = [c \in Callers |-> 0]
    /\ invoked = [c \in Callers |-> 0]
    /\ pre = [c \in Callers |->
                 IF c = 1 THEN [index |-> <<Genesis, 1>>, pool |-> <<>>]
                 ELSE NoPre]
    /\ cmp = [c \in Callers |-> NoCmp]
    /\ organized = {}

NextAccept ==
    \/ \E c \in Callers : LockHighPriority(c)
    \/ \E c \in Callers : GetBranch(c)
    \/ \E c \in Callers : Populate(c)
    \/ \E c \in Callers : HandlePopulated(c)
    \/ \E c \in Callers : HandleAccept(c)
    \/ \E c \in Callers : HandleComplete(c)
    \/ \E c \in Callers : Handler(c)

\* The thread pool runs every posted continuation and the lock is granted to
\* a caller that waits while it is free.
AcceptSpec ==
    /\ InitAccept
    /\ [][NextAccept]_vars
    /\ \A c \in Callers :
          /\ WF_vars(LockHighPriority(c))
          /\ WF_vars(GetBranch(c))
          /\ WF_vars(Populate(c))
          /\ WF_vars(HandlePopulated(c))
          /\ WF_vars(HandleAccept(c))
          /\ WF_vars(HandleComplete(c))
          /\ WF_vars(Handler(c))

\* --------------------------------------------------------------------------
\* Properties.

Has(c, e) == \E k \in 1..Len(events[c]) : events[c][k] = e

\* The caller is between lock_high_priority and unlock_high_priority.
InCritical(c) ==
    pc[c] \in {"get_branch", "populate", "handle_populated", "handle_accept",
               "handle_complete"}

\* A step of the organize sequence of caller c.
CallerStep(c) ==
    \/ LockHighPriority(c)
    \/ GetBranch(c)
    \/ Populate(c)
    \/ HandlePopulated(c)
    \/ HandleAccept(c)
    \/ HandleComplete(c)
    \/ Handler(c)

\* C1. Lock discipline: an invocation that took the high priority lock holds
\* it through its critical section, releases it exactly once on every path,
\* and has released it when the caller's handler is invoked; an invocation
\* that did not take it never releases it.
C1_LockDiscipline ==
    \A c \in Callers :
        /\ pc[c] # "dropped"
        /\ locked[c] <= 1 /\ unlocked[c] <= locked[c]
        /\ InCritical(c) <=> (locked[c] = 1 /\ unlocked[c] = 0)
        /\ InCritical(c) <=> mutex_ = c
        /\ pc[c] \in {"handler", "done"} =>
              mutex_ # c /\ unlocked[c] = locked[c]

\* A handler about to run with insufficient_work, its invocation having
\* unlocked once, while the other caller already holds the lock.
C1_Witness ==
    \E c \in Callers, d \in Callers :
        /\ c # d
        /\ pc[c] = "handler" /\ ec[c] = insufficient_work
        /\ locked[c] = 1 /\ unlocked[c] = 1
        /\ mutex_ = d

Codes ==
    {success, duplicate_block, orphan_block, invalid_timestamp, invalid_bits,
     insufficient_work, operation_failed, service_stopped, store_corrupted}

\* C2. Every organize invocation invokes the caller's handler exactly once
\* with an outcome code: no continuation drops the handler, none invokes it
\* twice, an invocation in flight has not invoked it yet and can always take
\* its next step once it was granted the lock, and an invocation that is over
\* has invoked it once.
C2_HandlerOnce ==
    \A c \in Callers :
        /\ pc[c] # "dropped"
        /\ invoked[c] <= 1
        /\ Len(todo[c]) <= 1
        /\ pc[c] = "done" => invoked[c] = 1 /\ todo[c] = <<>>
        /\ pc[c] # "done" => invoked[c] = 0
        /\ pc[c] \in {"handle_complete", "handler"} =>
              Len(todo[c]) = 1 /\ todo[c][1] \in Codes
        /\ pc[c] = "handler" => ec[c] = todo[c][1]
        /\ (InCritical(c) \/ pc[c] = "handler") => ENABLED CallerStep(c)

\* Both callers have had their handler invoked once, one of them after the
\* reorganization to H3'.
C2_Witness ==
    /\ \A c \in Callers : pc[c] = "done" /\ invoked[c] = 1
    /\ candidate = <<Genesis, 1, 3, 4>>

\* C3. A header that fails the context free check gets the handler invoked
\* with the error of the check at once: its invocation never waits for or
\* holds the lock, never builds a branch and never reaches accept.
C3_CheckFailure ==
    \A c \in Callers :
        (header[c] # NoHeader /\ check(header[c]) # success) =>
            /\ pc[c] = "handler"
            /\ events[c] = <<"check">>
            /\ todo[c] = <<check(header[c])>>
            /\ ec[c] = check(header[c])
            /\ mutex_ # c
            /\ unlocked[c] = 0

\* The handler of Hx is about to run with invalid_timestamp while the other
\* caller holds the lock: the failed check did not wait for it.
C3_Witness ==
    \E c \in Callers, d \in Callers :
        /\ c # d
        /\ pc[c] = "handler" /\ header[c] = 6 /\ ec[c] = invalid_timestamp
        /\ mutex_ = d

\* The caller is past handle_accept, or past the empty branch, and still
\* holds the lock: the index and the pool are as its invocation leaves them.
Completing(c) == pc[c] = "handle_complete"

\* Work of the headers the index held above the fork point of the branch
\* when the lock was granted.
Incumbent(c) ==
    SumProof(SubSeq(pre[c].index, branch[c].height + 2, Len(pre[c].index)))

PooledAt(pool, h, height) ==
    \E k \in 1..Len(pool) : pool[k] = [header |-> h, height |-> height]

\* C4. Tie-breaking: after a successful accept reorganize is called only when
\* the work of the branch is strictly greater than the required work (the
\* work of the indexed headers above the fork point); with work <= required,
\* equality included, the index is unchanged, the top of the branch is pooled
\* at the top height of the branch and the outcome is insufficient_work.
C4_TieBreaking ==
    \A c \in Callers :
        Completing(c) =>
            /\ (Has(c, "reorganize") \/ Has(c, "add")) =>
                  ec[c] = success /\ cmp[c].done
            /\ cmp[c].done =>
                  /\ cmp[c].work = SumProof(branch[c].headers)
                  /\ Has(c, "reorganize") <=> cmp[c].work > cmp[c].required
                  /\ Has(c, "reorganize") <=> cmp[c].work > Incumbent(c)
                  /\ cmp[c].work <= cmp[c].required =>
                        /\ candidate = pre[c].index
                        /\ todo[c] = <<insufficient_work>>
                        /\ Has(c, "add")
                        /\ PooledAt(pool_, header[c],
                                    branch[c].height + Len(branch[c].headers))

\* H2' is submitted while H2 is the top: equal work, insufficient_work, pooled
\* at height 2.
C4_Witness ==
    \E c \in Callers :
        /\ Completing(c) /\ header[c] = 3
        /\ pre[c].index = <<Genesis, 1, 2>>
        /\ cmp[c].done /\ cmp[c].work = cmp[c].required
        /\ todo[c] = <<insufficient_work>>
        /\ PooledAt(pool_, 3, 2)

\* C5. When the outcome is success the index is the index of before the call
\* up to the fork point of the branch followed by the headers of the branch:
\* the top is the submitted header at the fork height plus the length of the
\* branch, the pooled ancestors of the branch are indexed, and the headers
\* that were above the fork point are no longer indexed.
C5_Reorganized ==
    \A c \in Callers :
        (Completing(c) /\ todo[c] = <<success>>) =>
            LET old == pre[c].index
                hs == branch[c].headers
                f == branch[c].height
            IN  /\ branch[c].anchored
                /\ old[f + 1] = Previous[hs[1]]
                /\ Len(candidate) = f + 1 + Len(hs)
                /\ \A k \in 1..(f + 1) : candidate[k] = old[k]
                /\ \A i \in 1..Len(hs) : candidate[f + 1 + i] = hs[i]
                /\ candidate[Len(candidate)] = header[c]
                /\ \A i \in 1..(Len(hs) - 1) : InPool(pre[c].pool, hs[i])
                /\ \A h \in PoolHeaders(pre[c].pool) :
                      (\E i \in 1..Len(hs) : hs[i] = h) => InIndex(candidate, h)
                /\ \A k \in (f + 2)..Len(old) : ~InIndex(candidate, old[k])

\* H3' is submitted with H2' pooled and H2 the top: the branch H2', H3'
\* replaces H2.
C5_Witness ==
    \E c \in Callers :
        /\ Completing(c) /\ todo[c] = <<success>> /\ header[c] = 4
        /\ pre[c].index = <<Genesis, 1, 2>>
        /\ branch[c].headers = <<3, 4>>
        /\ candidate = <<Genesis, 1, 3, 4>>

\* A reorganize of caller c fails in this step.
ReorganizeFails(c) ==
    /\ pc[c] = "handle_accept" /\ pc'[c] = "handle_complete"
    /\ cmp'[c].reorganize \notin {"none", success}

\* The handle_accept of caller c ends with success in this step.
Succeeds(c) ==
    /\ pc[c] = "handle_accept" /\ pc'[c] = "handle_complete"
    /\ todo'[c] = <<success>>

\* C6 as claimed. Over any sequence of organize calls a call that ends with
\* success leaves the index with strictly more work and no other outcome
\* lowers the work of the index.
C6_Original ==
    [][/\ \A c \in Callers :
             Succeeds(c) => SumProof(candidate') > SumProof(candidate)
       /\ SumProof(candidate') >= SumProof(candidate)]_vars

\* C6 as amended. Over any sequence of organize calls a call that ends with
\* success leaves the index with strictly more work, and no step but a
\* reorganize that fails changes the work of the index otherwise.
C6_WorkMonotone ==
    [][/\ \A c \in Callers :
             Succeeds(c) => SumProof(candidate') > SumProof(candidate)
       /\ SumProof(candidate') # SumProof(candidate) =>
             \E c \in Callers : Succeeds(c) \/ ReorganizeFails(c)
       /\ SumProof(candidate') < SumProof(candidate) =>
             \E c \in Callers : ReorganizeFails(c)]_vars

\* A reorganization has raised the work of the index from 2 to 3; a failed
\* one has not happened in this invocation.
C6_Witness ==
    \E c \in Callers :
        /\ Completing(c) /\ todo[c] = <<success>>
        /\ SumProof(pre[c].index) = 2 /\ SumProof(candidate) = 3

\* C7. An empty branch (the header is pooled or indexed) completes with
\* duplicate_block after the lock is released, and accept, get_work, pool add
\* and reorganize are not called: accept never sees an empty branch.
C7_Duplicate ==
    \A c \in Callers :
        /\ pc[c] \in {"populate", "handle_populated", "handle_accept"} =>
              /\ ~branch_empty(branch[c])
              /\ ~InPool(pre[c].pool, header[c])
              /\ ~InIndex(pre[c].index, header[c])
        /\ (Completing(c) /\ (InPool(pre[c].pool, header[c])
                              \/ InIndex(pre[c].index, header[c]))) =>
              /\ branch_empty(branch[c])
              /\ todo[c] = <<duplicate_block>>
              /\ events[c] = <<"check", "lock", "get_branch">>
              /\ candidate = pre[c].index /\ pool_ = pre[c].pool
        /\ (Completing(c) /\ todo[c] = <<duplicate_block>>) =>
              branch_empty(branch[c])
        /\ (pc[c] = "handler" /\ todo[c] = <<duplicate_block>>) =>
              ec[c] = duplicate_block /\ mutex_ # c /\ unlocked[c] = 1

\* H1, which is indexed, completes with duplicate_block.
C7_Witness ==
    \E c \in Callers :
        /\ Completing(c) /\ todo[c] = <<duplicate_block>> /\ header[c] = 1
        /\ events[c] = <<"check", "lock", "get_branch">>
        /\ InIndex(candidate, 1)

\* The branch of caller c has no fork point: the parent of its first header
\* is neither pooled nor indexed.
Orphaned(c) == ~branch_empty(branch[c]) /\ ~branch[c].anchored

\* C8 as claimed. A header whose parent is unknown to the pool and the index
\* gets orphan_block, is retained in the pool by the organizer, and the top
\* does not change.
C8_Original ==
    \A c \in Callers :
        (Completing(c) /\ Orphaned(c) /\ todo[c] = <<orphan_block>>) =>
            /\ InPool(pool_, header[c])
            /\ candidate = pre[c].index

\* C8 as amended. A header whose parent is unknown to the pool and the index
\* gets orphan_block, or service_stopped when a stop is observed; the
\* organizer does not pool it: the pool and the index do not change.
C8_Orphan ==
    \A c \in Callers :
        /\ (InCritical(c) /\ pc[c] # "get_branch") =>
              (Orphaned(c) <=>
                  /\ ~InPool(pre[c].pool, header[c])
                  /\ ~InIndex(pre[c].index, header[c])
                  /\ ~InPool(pre[c].pool, Previous[header[c]])
                  /\ ~InIndex(pre[c].index, Previous[header[c]]))
        /\ (Completing(c) /\ Orphaned(c)) =>
              /\ todo[c] = IF Has(c, "validator_stopped")
                              \/ Has(c, "organizer_stopped")
                           THEN <<service_stopped>> ELSE <<orphan_block>>
              /\ ~Has(c, "add") /\ ~Has(c, "reorganize")
              /\ pool_ = pre[c].pool
              /\ ~InPool(pool_, header[c])
              /\ candidate = pre[c].index

\* Hy completes with orphan_block on a started organizer.
C8_Witness ==
    \E c \in Callers :
        /\ Completing(c) /\ header[c] = 5 /\ Orphaned(c)
        /\ todo[c] = <<orphan_block>>
        /\ Has(c, "populated") /\ Has(c, "accepted")

\* C9. An invocation whose handle_populated finds the validator stopped, or
\* whose handle_accept finds the organizer stopped, completes with
\* service_stopped, calls neither get_work nor pool add nor reorganize,
\* leaves the index and the pool alone and releases the lock before the
\* handler; so it is in the window where stop() has stopped the validator
\* and not yet the organizer.
C9_Stopped ==
    \A c \in Callers :
        /\ (Completing(c) /\ todo[c] = <<service_stopped>>) =>
              Has(c, "validator_stopped") \/ Has(c, "organizer_stopped")
        /\ (pc[c] = "handler" /\ todo[c] = <<service_stopped>>) =>
              ec[c] = service_stopped /\ unlocked[c] = 1 /\ mutex_ # c
        /\ (Has(c, "validator_stopped") \/ Has(c, "organizer_stopped")) =>
            /\ ~Has(c, "get_work") /\ ~Has(c, "add") /\ ~Has(c, "reorganize")
            /\ pc[c] \in {"handle_accept", "handle_complete"}
            /\ pc[c] = "handle_accept" => ec[c] = service_stopped
            /\ Completing(c) =>
                  /\ todo[c] = <<service_stopped>>
                  /\ candidate = pre[c].index /\ pool_ = pre[c].pool

\* stop() has stopped the validator and not yet the organizer; an invocation
\* that found the validator stopped and the organizer running completes with
\* service_stopped.
C9_Witness ==
    \E c \in Callers :
        /\ life = "stopping" /\ validator_stopped_ /\ ~organizer_stopped_
        /\ Completing(c) /\ header[c] = 2
        /\ Has(c, "validator_stopped") /\ Has(c, "accepted")
        /\ todo[c] = <<service_stopped>>

\* C10. When reorganize returns an error the handler is invoked with that
\* very code, the branch is not pooled, reorganize is not called again, and
\* the lock is released before the handler runs.
C10_ReorganizeError ==
    \A c \in Callers :
        /\ (Completing(c) /\ cmp[c].reorganize \notin {"none", success}) =>
              /\ todo[c] = <<cmp[c].reorganize>>
              /\ pool_ = pre[c].pool
              /\ ~Has(c, "add")
              /\ Cardinality({k \in 1..Len(events[c]) :
                                 events[c][k] = "reorganize"}) = 1
        /\ (Completing(c) /\ Has(c, "reorganize")) =>
              todo[c] = <<cmp[c].reorganize>>
        /\ (pc[c] = "handler" /\ locked[c] = 1) =>
              /\ ec[c] = todo[c][1]
              /\ unlocked[c] = 1 /\ mutex_ # c

\* The handler is about to run with store_corrupted after a reorganize that
\* failed with the headers above the fork point popped.
C10_Witness ==
    \E c \in Callers :
        /\ pc[c] = "handler" /\ locked[c] = 1
        /\ ec[c] = store_corrupted /\ unlocked[c] = 1
        /\ candidate = <<Genesis, 1>>

\* Where a step stands in the organize sequence.
Rank(e) ==
    CASE e = "check" -> 1
      [] e = "lock" -> 2
      [] e = "get_branch" -> 3
      [] e = "accept" -> 4
      [] e \in {"populated", "validator_stopped"} -> 5
      [] e \in {"accepted", "organizer_stopped"} -> 6
      [] e = "get_work" -> 7
      [] OTHER -> 8

\* C11. Within one organize call the steps are ordered check, lock,
\* get_branch, accept, get_work, reorganize; accept is only invoked when the
\* check returned success, and reorganize only when the check returned
\* success and accept completed with success.
C11_Ordering ==
    \A c \in Callers :
        /\ \A j, k \in 1..Len(events[c]) :
              j < k => Rank(events[c][j]) < Rank(events[c][k])
        /\ events[c] # <<>> => events[c][1] = "check"
        /\ Has(c, "lock") => check(header[c]) = success
        /\ Has(c, "accept") =>
              check(header[c]) = success /\ Has(c, "lock") /\ Has(c, "get_branch")
        /\ Has(c, "get_work") =>
              Has(c, "accept") /\ Has(c, "populated") /\ Has(c, "accepted")
        /\ Has(c, "reorganize") =>
              /\ check(header[c]) = success
              /\ Has(c, "accept") /\ Has(c, "populated") /\ Has(c, "accepted")
              /\ Has(c, "get_work")
              /\ ec[c] = success

\* A call that went through the whole sequence and reorganized.
C11_Witness ==
    \E c \in Callers :
        /\ Completing(c)
        /\ events[c] = <<"check", "lock", "get_branch", "accept", "populated",
                         "accepted", "get_work", "reorganize">>
        /\ check(header[c]) = success /\ ec[c] = success

\* Caller c takes a step of its critical section: get_branch, the posted
\* population, handle_populated or handle_accept.
CriticalStep(c) ==
    /\ pc[c] \in {"get_branch", "populate", "handle_populated", "handle_accept"}
    /\ pc'[c] # pc[c]

\* C12. Critical sections of concurrent organize calls never interleave: one
\* call at most is between the grant and the release of the lock; only that
\* call performs get_branch, accept, get_work, pool add or reorganize and
\* changes the index or the pool; until its own handle_accept has run, the
\* index and the pool are the ones the previous holder left, and its branch
\* and its work comparison are computed against them.
C12_CriticalSections ==
    [][/\ \A c, d \in Callers : (InCritical(c) /\ InCritical(d)) => c = d
       /\ \A c \in Callers :
             CriticalStep(c) =>
                /\ mutex_ = c /\ mutex_' = c
                /\ \A d \in Callers \ {c} :
                      ~InCritical(d) /\ events'[d] = events[d]
                /\ candidate = pre[c].index /\ pool_ = pre[c].pool
                /\ pc[c] = "get_branch" =>
                      branch'[c] = get_branch(pre[c].pool, pre[c].index,
                                              header[c])
                /\ cmp'[c].done =>
                      /\ cmp'[c].work = branch_work(branch[c])
                      /\ cmp'[c].required =
                            handle_accept_required(pre[c].index, branch[c])
       /\ (candidate' # candidate \/ pool_' # pool_) =>
             \E c \in Callers :
                /\ mutex_ = c /\ pc[c] = "handle_accept"
                /\ pc'[c] = "handle_complete"
                /\ \A d \in Callers \ {c} : pc'[d] = pc[d]
      ]_vars

\* A call about to run handle_accept on the index the previous holder of the
\* lock left (H1 on top), while the other caller is blocked at the lock.
C12_Witness ==
    \E c \in Callers, d \in Callers :
        /\ c # d
        /\ pc[c] = "handle_accept" /\ mutex_ = c
        /\ pc[d] = "lock_high_priority"
        /\ pre[c].index = <<Genesis, 1>> /\ candidate = pre[c].index
        /\ branch[c].headers = <<2>>

\* What one organize call of a running organizer comes to when nothing else
\* runs: its outcome code and the index and the pool it leaves, from the
\* index and the pool it finds, the header, and what the store answers
\* (whether the population reads, get_work and reorganize succeed).
organize_alone(index, pool, h, read_ok, work_ok, outcome) ==
    LET b == get_branch(pool, index, h)
        populated == handle_populated(FALSE, populate(b, read_ok), b)
        accepted == handle_accept(FALSE, Head(populated), b, index, pool,
                                  work_ok, outcome)
    IN  IF check(h) # success
        THEN [code |-> check(h), index |-> index, pool |-> pool]
        ELSE IF branch_empty(b)
        THEN [code |-> duplicate_block, index |-> index, pool |-> pool]
        ELSE [code |-> Head(accepted.calls), index |-> accepted.index,
              pool |-> accepted.pool]

\* The answers of the store that agree with what the call of c has seen.
StoreAnswers(c) ==
    {a \in BOOLEAN \X BOOLEAN \X ReorganizeOutcomes :
        /\ (Has(c, "populated") /\ branch[c].anchored) =>
              (a[1] <=> ec[c] # operation_failed)
        /\ Has(c, "get_work") => (a[2] <=> cmp[c].done)
        /\ Has(c, "reorganize") =>
              cmp[c].reorganize =
                 reorganize(pre[c].index, 0, <<>>, a[3]).code}

\* No stop was seen by the continuations of the call of c.
Running(c) == ~Has(c, "validator_stopped") /\ ~Has(c, "organizer_stopped")

\* C13. Determinism: the outcome code of an organize call of a running
\* organizer, and the index and the pool it leaves, are those of the call
\* running alone on the index and the pool it was granted, whatever the
\* interleaving with the other callers and the thread of the continuation.
C13_Determinism ==
    \A c \in Callers :
        /\ (pc[c] = "handler" /\ locked[c] = 0) =>
              /\ ec[c] = check(header[c])
              /\ \A a \in StoreAnswers(c) :
                    ec[c] = organize_alone(candidate, pool_, header[c],
                                           a[1], a[2], a[3]).code
        /\ (Completing(c) /\ Running(c)) =>
              \A a \in StoreAnswers(c) :
                 LET alone == organize_alone(pre[c].index, pre[c].pool,
                                             header[c], a[1], a[2], a[3])
                 IN  /\ todo[c] = <<alone.code>>
                     /\ candidate = alone.index
                     /\ pool_ = alone.pool

\* Both callers submitted H2'; the one granted the lock first completes with
\* insufficient_work while the other is still blocked at the lock.
C13_Witness ==
    \E c \in Callers, d \in Callers :
        /\ c # d
        /\ Completing(c) /\ Running(c) /\ header[c] = 3
        /\ todo[c] = <<insufficient_work>>
        /\ pc[d] = "lock_high_priority" /\ header[d] = 3

\* Caller c reads the pool to build its branch (pool_.get_branch).
PoolRead(c) == pc[c] = "get_branch" /\ pc'[c] # "get_branch"

\* Caller c calls pool_.add.
PoolWrite(c) ==
    /\ pc[c] = "handle_accept"
    /\ \E k \in 1..Len(events'[c]) : events'[c][k] = "add"

\* C14. Every access of the header pool by the organizer, the read of
\* get_branch and the add, is made by the call that holds the high priority
\* lock, before and after the access; no other call is then at a place where
\* it reads or mutates the pool, and the pool changes by add only.
C14_PoolUnderLock ==
    [][/\ \A c \in Callers :
             (PoolRead(c) \/ PoolWrite(c)) =>
                /\ mutex_ = c /\ mutex_' = c
                /\ locked[c] = 1 /\ unlocked[c] = 0
                /\ \A d \in Callers \ {c} :
                      /\ pc[d] \notin {"get_branch", "handle_accept"}
                      /\ pc'[d] = pc[d]
       /\ pool_' # pool_ => \E c \in Callers : PoolWrite(c)
      ]_vars

\* The holder of the lock has added H2 to a pool that held H2' already, while
\* the other caller is blocked at the lock.
C14_Witness ==
    \E c \in Callers, d \in Callers :
        /\ c # d
        /\ Completing(c) /\ mutex_ = c /\ Has(c, "add")
        /\ InPool(pre[c].pool, 3) /\ InPool(pool_, 2)
        /\ pc[d] = "lock_high_priority"

\* The outcomes on which a call leaves the index and the pool alone.
Rejections == Codes \ {success, insufficient_work, store_corrupted}

\* C15. Frame: the candidate index changes only in the reorganize of a call
\* whose accept succeeded and whose work exceeds the required work; the pool
\* changes only on the insufficient_work path; on every other outcome (check
\* error, duplicate_block, populate or accept error, service_stopped,
\* operation_failed) the index and the pool after the call are those before
\* it: the rejected header is not pooled.
C15_Frame ==
    [][/\ candidate' # candidate =>
             \E c \in Callers :
                /\ pc[c] = "handle_accept" /\ pc'[c] = "handle_complete"
                /\ ec[c] = success /\ ~organizer_stopped_
                /\ cmp'[c].done /\ cmp'[c].work > cmp'[c].required
                /\ cmp'[c].reorganize # "none"
                /\ pool_' = pool_
       /\ pool_' # pool_ =>
             \E c \in Callers :
                /\ pc[c] = "handle_accept" /\ pc'[c] = "handle_complete"
                /\ ec[c] = success /\ ~organizer_stopped_
                /\ todo'[c] = <<insufficient_work>>
                /\ cmp'[c].done /\ cmp'[c].work <= cmp'[c].required
                /\ candidate' = candidate
       /\ \A c \in Callers :
             /\ (pc'[c] = "handle_complete" /\ todo'[c][1] \in Rejections) =>
                   /\ candidate' = pre'[c].index /\ pool_' = pre'[c].pool
                   /\ ~InPool(pool_', header'[c]) \/ InPool(pre'[c].pool, header'[c])
             /\ (pc[c] \in {"idle", "done"} /\ pc'[c] = "handler") =>
                   /\ todo'[c][1] \in Rejections
                   /\ candidate' = candidate /\ pool_' = pool_
      ]_vars

\* Hb is rejected with invalid_bits: the pool, which holds a header, and the
\* index are as the call found them, and Hb is not pooled.
C15_Witness ==
    \E c \in Callers :
        /\ Completing(c) /\ header[c] = 7 /\ todo[c] = <<invalid_bits>>
        /\ pool_ # <<>> /\ pool_ = pre[c].pool /\ candidate = pre[c].index
        /\ ~InPool(pool_, 7)

\* The get_work query of the call of c has failed.
WorkFailed(c) == Has(c, "get_work") /\ ~cmp[c].done

\* C16. When get_work fails after a successful accept, the call completes
\* with operation_failed without pool add or reorganize, the index and the
\* pool as it found them, and the lock is released before the handler is
\* invoked with that code.
C16_WorkFailure ==
    [][\A c \in Callers :
          WorkFailed(c) =>
             /\ Completing(c) /\ mutex_ = c
             /\ ec[c] = success /\ Has(c, "populated") /\ Has(c, "accepted")
             /\ todo[c] = <<operation_failed>>
             /\ ~Has(c, "add") /\ ~Has(c, "reorganize")
             /\ candidate = pre[c].index /\ pool_ = pre[c].pool
             /\ pc'[c] # pc[c] =>
                   /\ pc'[c] = "handler" /\ ec'[c] = operation_failed
                   /\ mutex_' # c /\ unlocked'[c] = 1 /\ invoked'[c] = 0
                   /\ candidate' = candidate /\ pool_' = pool_
      ]_vars

\* The get_work query for H2 on top of H1 has failed.
C16_Witness ==
    \E c \in Callers :
        /\ WorkFailed(c) /\ Completing(c) /\ header[c] = 2
        /\ todo[c] = <<operation_failed>>
        /\ candidate = <<Genesis, 1>>

\* C17. In accept, when the population succeeded and the validator is not
\* stopped, a top header that is validated already yields success without
\* its contextual checks (which would fail for H3'); otherwise the code
\* handed to the organizer is that of the contextual checks on the top header
\* of the branch alone, whatever the headers below it.
C17_Validated ==
    [][\A c \in Callers :
          (/\ pc[c] = "handle_populated" /\ pc'[c] # pc[c]
           /\ ~validator_stopped_ /\ ec[c] = success
           /\ ~branch_empty(branch[c])) =>
             LET top == branch[c].headers[Len(branch[c].headers)]
                 code == IF Validated[top] THEN success ELSE HeaderAccept[top]
             IN  /\ pc'[c] = "handle_accept"
                 /\ todo'[c] = <<code>> /\ ec'[c] = code
      ]_vars

\* accept has handed success to the organizer for [H2', H3']: H3' is
\* validated, its contextual checks would have given invalid_bits.
C17_Witness ==
    \E c \in Callers :
        /\ pc[c] = "handle_accept" /\ Has(c, "populated")
        /\ branch[c].headers = <<3, 4>>
        /\ Validated[4] /\ HeaderAccept[4] = invalid_bits
        /\ ec[c] = success /\ todo[c] = <<success>>

\* The call of c is past get_branch with a branch that was not empty.
PastDuplicateTest(c) ==
    pc[c] \in {"populate", "handle_populated", "handle_accept"}

\* The call of c has completed on the empty branch.
CompletingDuplicate(c) == Completing(c) /\ ~Has(c, "accept")

\* C18 as claimed. A header that an earlier call integrated or pooled never
\* gets past the duplicate test again: submitted again it completes with
\* duplicate_block, the index and the pool unchanged.
C18_Original ==
    \A c \in Callers :
        /\ PastDuplicateTest(c) => header[c] \notin organized
        /\ (CompletingDuplicate(c) /\ header[c] \in organized) =>
              /\ todo[c] = <<duplicate_block>>
              /\ candidate = pre[c].index /\ pool_ = pre[c].pool

\* C18. A header that an earlier call integrated or pooled and that is still
\* in the index or in the pool when the call is granted the lock completes
\* with duplicate_block, the top of the index and the pool unchanged; one
\* that is in neither any more (a reorganization removed it from the index,
\* or the pool evicted it) is organized as a new header.
C18_Resubmission ==
    \A c \in Callers :
        /\ (PastDuplicateTest(c) /\ header[c] \in organized) =>
              /\ ~InIndex(pre[c].index, header[c])
              /\ ~InPool(pre[c].pool, header[c])
        /\ (CompletingDuplicate(c) /\ header[c] \in organized) =>
              /\ InIndex(pre[c].index, header[c])
                    \/ InPool(pre[c].pool, header[c])
              /\ todo[c] = <<duplicate_block>>
              /\ candidate = pre[c].index /\ pool_ = pre[c].pool
              /\ TopHeight(candidate) = TopHeight(pre[c].index)
              /\ candidate[Len(candidate)] = pre[c].index[Len(pre[c].index)]

\* H2', pooled by an earlier call and still in the pool, is submitted again
\* and completes with duplicate_block.
C18_Witness ==
    \E c \in Callers :
        /\ CompletingDuplicate(c) /\ header[c] = 3 /\ 3 \in organized
        /\ InPool(pre[c].pool, 3) /\ ~InIndex(pre[c].index, 3)
        /\ todo[c] = <<duplicate_block>> /\ pool_ = pre[c].pool

\* C19 as claimed. No held lock is leaked: whatever the populated continuation
\* receives, the call that holds the lock eventually releases it, and a call
\* blocked at lock_high_priority is eventually granted the lock.
C19_Original ==
    \A c \in Callers :
        /\ (mutex_ = c) ~> (mutex_ # c)
        /\ (pc[c] = "lock_high_priority") ~> (locked[c] = 1)

\* The lock is leaked: the continuation of the holder has returned without
\* invoking a handler, so nothing is left to run that would unlock.
C19_Leaked ==
    \E c \in Callers :
        /\ mutex_ = c /\ pc[c] = "dropped"
        /\ unlocked[c] = 0 /\ invoked[c] = 0
        /\ ~ENABLED CallerStep(c)

\* What holds of C19: a lock is leaked only by a continuation that returned
\* without invoking a handler; on every other input the holder releases the
\* lock and the callers blocked at it are granted it.
C19_ReleasedUnlessDropped ==
    (\E c \in Callers : <>(pc[c] = "dropped")) \/ C19_Original

\* The outcome of the call of c that holds the lock, by the order of the
\* tests: the empty branch, the stop flags, the code of populate or of the
\* contextual checks, the failure of get_work, the work comparison, and the
\* code of reorganize.
Precedence(c) ==
    IF branch_empty(branch[c]) THEN duplicate_block
    ELSE IF ~Running(c) THEN service_stopped
    ELSE IF ec[c] # success THEN ec[c]
    ELSE IF WorkFailed(c) THEN operation_failed
    ELSE IF cmp[c].work <= cmp[c].required THEN insufficient_work
    ELSE cmp[c].reorganize

\* C20. The outcome follows the order of the tests. A header that fails the
\* check gets the check error whatever the stop flags, the index and the
\* pool are; a known header gets duplicate_block, stopped or not; then a stop
\* seen by handle_populated or handle_accept gives service_stopped, also
\* when populate or the contextual checks gave an error; then come that
\* error, operation_failed, insufficient_work and the code of reorganize.
C20_Precedence ==
    \A c \in Callers :
        /\ (pc[c] = "handler" /\ locked[c] = 0) =>
              ec[c] = check(header[c]) /\ ec[c] # success
        /\ Has(c, "lock") => check(header[c]) = success
        /\ pc[c] \in {"get_branch", "populate", "handle_populated"} =>
              todo[c] = <<>>
        /\ Completing(c) =>
              /\ todo[c] = <<Precedence(c)>>
              /\ branch_empty(branch[c]) <=>
                    (InPool(pre[c].pool, header[c])
                     \/ InIndex(pre[c].index, header[c]))
              /\ branch_empty(branch[c]) => ~Has(c, "accept")
              /\ Has(c, "validator_stopped") =>
                    ec[c] = service_stopped /\ ~Has(c, "get_work")
              /\ Has(c, "organizer_stopped") => ~Has(c, "get_work")
              /\ (Running(c) /\ ec[c] # success) => ~Has(c, "get_work")
              /\ WorkFailed(c) => ~Has(c, "add") /\ ~Has(c, "reorganize")
              /\ Has(c, "add") => ~Has(c, "reorganize")

\* The contextual checks of Hb gave invalid_bits, then handle_accept found
\* the organizer stopped: the call completes with service_stopped.
C20_Witness ==
    \E c \in Callers :
        /\ Completing(c) /\ header[c] = 7 /\ ec[c] = invalid_bits
        /\ Has(c, "populated") /\ Has(c, "organizer_stopped")
        /\ todo[c] = <<service_stopped>>

====
